---- MODULE Spec2Model ----
(***************************************************************************)
(* A model of the scrabble word finder: scrabble_helpers.scrabble,         *)
(* scrabble_helpers.unpack_candidate and wordscore.score_word.             *)
(*                                                                         *)
(* A character is a one-character string, a Python str is a sequence of    *)
(* characters, a Python tuple or list is a sequence.  The dictionary file  *)
(* sowpods.txt is an input: a sequence of lines, each ending in "\n".      *)
(***************************************************************************)
EXTENDS Integers, Sequences, FiniteSets, TLC

(***************************************************************************)
(* Bounds of the model.                                                    *)
(***************************************************************************)
\* the longest rack tried (the program accepts up to seven tiles)
MaxRack == 3
\* the longest dictionary entry tried
MaxWordLen == 3
\* the largest number of lines of the dictionary file tried in SpecFile
MaxLines == 2

\* scrabble_argparse refuses a rack shorter than this
MinRack == 2

\* the tiles racks are made of, and the characters dictionary entries are
\* made of: "D" is a letter no rack holds, "a" a character a well-formed
\* dictionary never holds.  The entries of the longer files of SpecFile are
\* made of FileChars.
RackTiles == {"A", "B", "*", "?"}
DictChars == {"A", "B", "D", "a"}
FileChars == {"A", "B"}

(***************************************************************************)
(* Characters: code points, str.lower, and the order of str comparison.    *)
(***************************************************************************)
Upper == <<"A", "B", "C", "D", "E", "F", "G", "H", "I", "J", "K", "L", "M",
           "N", "O", "P", "Q", "R", "S", "T", "U", "V", "W", "X", "Y", "Z">>
Lower == <<"a", "b", "c", "d", "e", "f", "g", "h", "i", "j", "k", "l", "m",
           "n", "o", "p", "q", "r", "s", "t", "u", "v", "w", "x", "y", "z">>

Range(s) == {s[i] : i \in DOMAIN s}

IndexOf(s, c) == CHOOSE i \in DOMAIN s : s[i] = c

\* the code point of a character
ord(c) ==
  IF c \in Range(Upper) THEN 64 + IndexOf(Upper, c)
  ELSE IF c \in Range(Lower) THEN 96 + IndexOf(Lower, c)
  ELSE IF c = "\n" THEN 10
  ELSE IF c = "*" THEN 42
  ELSE 63

\* str.lower on one character
lower_char(c) == IF c \in Range(Upper) THEN Lower[IndexOf(Upper, c)] ELSE c

\* str.lower
lower(s) == [i \in DOMAIN s |-> lower_char(s[i])]

\* s < t for two Python strings: lexicographic by code point, a proper prefix first
RECURSIVE str_lt(_, _)
str_lt(s, t) ==
  IF t = <<>> THEN FALSE
  ELSE IF s = <<>> THEN TRUE
  ELSE IF ord(Head(s)) # ord(Head(t)) THEN ord(Head(s)) < ord(Head(t))
  ELSE str_lt(Tail(s), Tail(t))

\* a < b for two sort keys: both integers (kind "int") or both strings (kind "str")
key_lt(kind, a, b) == IF kind = "int" THEN a < b ELSE str_lt(a, b)

\* str.strip("\n"): drop the newlines at both ends
RECURSIVE lstrip_nl(_)
lstrip_nl(s) ==
  IF s # <<>> /\ Head(s) = "\n" THEN lstrip_nl(Tail(s)) ELSE s

RECURSIVE rstrip_nl(_)
rstrip_nl(s) ==
  IF s # <<>> /\ s[Len(s)] = "\n" THEN rstrip_nl(SubSeq(s, 1, Len(s) - 1)) ELSE s

strip_nl(s) == rstrip_nl(lstrip_nl(s))

(***************************************************************************)
(* wordscore.score_word                                                    *)
(***************************************************************************)
scores ==
  [A |-> 1, C |-> 3, B |-> 3, E |-> 1, D |-> 2, G |-> 2, F |-> 4, I |-> 1,
   H |-> 4, K |-> 5, J |-> 8, M |-> 3, L |-> 1, O |-> 1, N |-> 1, Q |-> 10,
   P |-> 3, S |-> 1, R |-> 1, U |-> 1, T |-> 1, W |-> 4, V |-> 4, Y |-> 4,
   X |-> 8, Z |-> 10]

\* scores.get(char, 0)
scores_get(char) == IF char \in DOMAIN scores THEN scores[char] ELSE 0

RECURSIVE score_word(_)
score_word(w) ==
  IF w = <<>> THEN 0 ELSE scores_get(Head(w)) + score_word(Tail(w))

(***************************************************************************)
(* list.sort / sorted: a stable sort, and reverse=True keeps equal keys in *)
(* their original order (the list is reversed, sorted and reversed back).  *)
(***************************************************************************)
Reverse(s) == [i \in DOMAIN s |-> s[Len(s) + 1 - i]]

\* x put into the sorted list s behind every element whose key is not greater
RECURSIVE InsertSorted(_, _, _, _)
InsertSorted(x, s, k, kind) ==
  IF s = <<>> THEN <<x>>
  ELSE IF key_lt(kind, x[k], Head(s)[k]) THEN <<x>> \o s
  ELSE <<Head(s)>> \o InsertSorted(x, Tail(s), k, kind)

RECURSIVE StableSort(_, _, _)
StableSort(s, k, kind) ==
  IF s = <<>> THEN <<>>
  ELSE InsertSorted(s[Len(s)], StableSort(SubSeq(s, 1, Len(s) - 1), k, kind), k, kind)

\* list_sort as it would be were reverse=True a sort followed by a reversal
list_sort_reversed_after(s, getter, kind, reverse) ==
  IF reverse THEN Reverse(StableSort(s, getter + 1, kind))
  ELSE StableSort(s, getter + 1, kind)

\* s sorted by the element at (0-based) place getter, whose values are of
\* the given kind, as list.sort(key=itemgetter(getter), reverse=...)
list_sort(s, getter, kind, reverse) ==
  IF reverse THEN Reverse(StableSort(Reverse(s), getter + 1, kind))
  ELSE StableSort(s, getter + 1, kind)

(***************************************************************************)
(* collections.Counter: the keys in the order they were first seen, and    *)
(* the count of each.  Reading a key that is absent gives 0.               *)
(***************************************************************************)
RECURSIVE first_seen(_)
first_seen(s) ==
  IF s = <<>> THEN <<>>
  ELSE LET init == first_seen(SubSeq(s, 1, Len(s) - 1))
           c == s[Len(s)]
       IN  IF c \in Range(init) THEN init ELSE Append(init, c)

Counter(s) ==
  [keys |-> first_seen(s),
   count |-> [c \in Range(s) |-> Cardinality({i \in DOMAIN s : s[i] = c})]]

\* Counter_getitem as it would be were the letter looked up without regard to case
Counter_getitem_caseless(counter, char) ==
  IF \E k \in DOMAIN counter.count : lower_char(k) = lower_char(char)
  THEN counter.count[CHOOSE k \in DOMAIN counter.count : lower_char(k) = lower_char(char)]
  ELSE 0

\* counter[char]
Counter_getitem(counter, char) ==
  IF char \in DOMAIN counter.count THEN counter.count[char] ELSE 0

\* the counter after counter[char] was read: Counter.__missing__ returns 0
\* and stores nothing
Counter_after_getitem(counter, char) == counter

(***************************************************************************)
(* scrabble_helpers.unpack_candidate                                       *)
(***************************************************************************)
unpack_candidate(x) ==
  LET counter == Counter(x)
      triples == [i \in DOMAIN counter.keys |->
                    <<counter.keys[i], score_word(<<counter.keys[i]>>),
                      counter.count[counter.keys[i]]>>]
  IN  list_sort(triples, 1, "int", TRUE)

(***************************************************************************)
(* Regular expressions.  wildcard_re is "\*|\?".  exclude_re[n] is         *)
(* "(.*[^<alpha_tiles_str>]){n+1}" and is used with match, which anchors   *)
(* it at the start of the word: "." is any character but a newline and the *)
(* negated class is any character outside it.                              *)
(***************************************************************************)
wildcard_re(c) == c = "*" \/ c = "?"

not_wildcard_re(c) == ~wildcard_re(c)

\* exclude_re as it would be with the repetition counts one too low for the
\* racks that hold wildcards
exclude_re_strict(tiles_str) ==
  <<[neg |-> Range(tiles_str), reps |-> 1],
    [neg |-> Range(tiles_str), reps |-> 1],
    [neg |-> Range(tiles_str), reps |-> 2]>>

\* the tuple exclude_re of lines 184-188; reps is the number of repetitions
exclude_re(tiles_str) ==
  <<[neg |-> Range(tiles_str), reps |-> 1],
    [neg |-> Range(tiles_str), reps |-> 2],
    [neg |-> Range(tiles_str), reps |-> 3]>>

\* exclude_match_from as it would be for the pattern ([^neg]){reps}, the ".*" forgotten
RECURSIVE exclude_match_from_adjacent(_, _, _, _)
exclude_match_from_adjacent(neg, reps, w, pos) ==
  IF reps = 0 THEN TRUE
  ELSE /\ pos <= Len(w)
       /\ w[pos] \notin neg
       /\ exclude_match_from_adjacent(neg, reps - 1, w, pos + 1)

\* (.*[^neg]){reps} matches w from position pos on
RECURSIVE exclude_match_from(_, _, _, _)
exclude_match_from(neg, reps, w, pos) ==
  IF reps = 0 THEN TRUE
  ELSE \E j \in pos..Len(w) :
         /\ \A i \in pos..(j - 1) : w[i] # "\n"
         /\ w[j] \notin neg
         /\ exclude_match_from(neg, reps - 1, w, j + 1)

\* exclude_re[n].match(w) is not None
exclude_re_match(tiles_str, n, w) ==
  LET re == exclude_re(tiles_str)[n + 1]
  IN  exclude_match_from(re.neg, re.reps, w, 1)

(***************************************************************************)
(* The constraint: None, or a pattern compiled with re.IGNORECASE.  The    *)
(* patterns modelled are sequences of atoms, a letter or ".".  None is     *)
(* <<>> and a compiled pattern p is <<p>>.                                 *)
(***************************************************************************)
None == <<>>

atom_matches(atom, c) ==
  IF atom = "." THEN c # "\n" ELSE lower_char(atom) = lower_char(c)

\* the pattern matches w at position pos (1-based)
pattern_matches_at(pattern, w, pos) ==
  /\ pos + Len(pattern) - 1 <= Len(w)
  /\ \A i \in DOMAIN pattern : atom_matches(pattern[i], w[pos + i - 1])

\* constraint_match as it would be with search in place of match
constraint_match_search(c, w) ==
  \E pos \in 1..(Len(w) + 1) : pattern_matches_at(c[1], w, pos)

\* constraint.match(w) is not None: a match at the start of w only
constraint_match(c, w) == pattern_matches_at(c[1], w, 1)

(***************************************************************************)
(* The assembly check of one candidate, lines 207-220.                     *)
(***************************************************************************)
\* assemble_step as it would be with "have >= need" written as a test that the
\* rack holds the letter at all
assemble_step_presence(st, triple, counter) ==
  LET value == triple[2]
      need == triple[3]
      have == Counter_getitem(counter, triple[1])
  IN  IF have >= 1 THEN st
      ELSE IF have + st.wildcards_available >= need
      THEN [st EXCEPT !.wildcards_available = @ - (need - have),
                      !.scoring_delta = @ + (need - have) * value]
      ELSE [st EXCEPT !.valid = "False"]

\* assemble_step as it would be with the value of a letter deducted once, not
\* once per tile a wildcard stands for
assemble_step_flat_delta(st, triple, counter) ==
  LET value == triple[2]
      need == triple[3]
      have == Counter_getitem(counter, triple[1])
  IN  IF have >= need THEN st
      ELSE IF have + st.wildcards_available >= need
      THEN [st EXCEPT !.wildcards_available = @ - (need - have),
                      !.scoring_delta = @ + value]
      ELSE [st EXCEPT !.valid = "False"]

\* assemble_step as it would be with the delta of line 216 taken from the
\* wildcards left over, not from the tiles missing
assemble_step_delta_of_rest(st, triple, counter) ==
  LET value == triple[2]
      need == triple[3]
      have == Counter_getitem(counter, triple[1])
  IN  IF have >= need THEN st
      ELSE IF have + st.wildcards_available >= need
      THEN [st EXCEPT !.wildcards_available = @ - (need - have),
                      !.scoring_delta = @ + (st.wildcards_available - (need - have)) * value]
      ELSE [st EXCEPT !.valid = "False"]

\* the body of the loop of line 210 for one triple; st holds the three locals
assemble_step(st, triple, counter) ==
  LET value == triple[2]
      need == triple[3]
      have == Counter_getitem(counter, triple[1])
  IN  IF have >= need THEN st
      ELSE IF have + st.wildcards_available >= need
      THEN [st EXCEPT !.wildcards_available = @ - (need - have),
                      !.scoring_delta = @ + (need - have) * value]
      ELSE [st EXCEPT !.valid = "False"]

\* fresh_wildcards as it would be were line 207 placed before the loop over
\* the lines: what the word before left over
fresh_wildcards_carried(n_wildcards, old_available) == old_available

\* the value number_of_wildcards gives wildcards_available at line 207
fresh_wildcards(n_wildcards, old_available) == n_wildcards

\* the loop of line 210 over the given triples, with its break
RECURSIVE assemble_loop(_, _, _)
assemble_loop(st, triples, counter) ==
  IF triples = <<>> THEN st
  ELSE LET nxt == assemble_step(st, Head(triples), counter)
       IN  IF nxt.valid = "False" THEN nxt
           ELSE assemble_loop(nxt, Tail(triples), counter)

(***************************************************************************)
(* The inputs: the rack and the constraint scrabble is called with, and    *)
(* the lines of the dictionary file.                                       *)
(***************************************************************************)
count_of(s, c) == Cardinality({i \in DOMAIN s : s[i] = c})

\* the racks scrabble_argparse lets through (lines 78-95), already upper case
Racks ==
  {r \in UNION {[1..n -> RackTiles] : n \in MinRack..MaxRack} :
     count_of(r, "*") <= 1 /\ count_of(r, "?") <= 1}

\* the racks of the shortest length
ShortRacks == {r \in Racks : Len(r) = MinRack}

Words == UNION {[1..n -> DictChars] : n \in 0..MaxWordLen}

\* the entries of the files of SpecFile: up to one character longer than its racks
FileWords == UNION {[1..n -> FileChars] : n \in 0..(MinRack + 1)}

\* the text line of an entry
line_of(w) == w \o <<"\n">>

Patterns == {<<"A">>, <<".", "b">>}

Constraints == {None} \cup {<<p>> : p \in Patterns}

\* the dictionary files of one entry
OneLineFiles == {<<line_of(w)>> : w \in Words}

\* the dictionary files of at most MaxLines entries
Files == UNION {[1..k -> {line_of(w) : w \in FileWords}] : k \in 0..MaxLines}

(***************************************************************************)
(* The state of one call of scrabble(rack, constraint).                    *)
(***************************************************************************)
VARIABLES
  rack,                \* parameter
  constraint,          \* parameter
  raw_input,           \* infile.readlines()
  tile_count,
  number_of_wildcards,
  rack_alpha_counter,
  alpha_tiles_str,
  consumed,            \* the number of lines the loop of line 192 has taken
  word,
  wildcards_available,
  scoring_delta,
  valid,               \* "None" or "False"
  todo,                \* the triples the loop of line 210 has still to take
  result,
  stdout,              \* what was printed: the (score, word) lines, then the total
  pc                   \* the statement about to be executed

vars ==
  <<rack, constraint, raw_input, tile_count, number_of_wildcards,
    rack_alpha_counter, alpha_tiles_str, consumed, word, wildcards_available,
    scoring_delta, valid, todo, result, stdout, pc>>

params == <<rack, constraint, raw_input, tile_count, number_of_wildcards, alpha_tiles_str>>

locals == <<wildcards_available, scoring_delta, valid, todo>>

\* lines 159-191: the state in which the loop over the lines is entered
Setup(r, c, f) ==
  /\ rack = r
  /\ constraint = c
  /\ raw_input = f
  /\ result = <<>>
  /\ tile_count = Len(r)
  /\ number_of_wildcards = Len(SelectSeq(r, wildcard_re))
  /\ rack_alpha_counter = Counter(SelectSeq(r, not_wildcard_re))
  /\ alpha_tiles_str = Counter(SelectSeq(r, not_wildcard_re)).keys
  /\ consumed = 0
  /\ word = <<>>
  \* the locals of the loop body are unbound until the first candidate: they
  \* stand here with the values lines 207-209 give them
  /\ wildcards_available = Len(SelectSeq(r, wildcard_re))
  /\ scoring_delta = 0
  /\ valid = "None"
  /\ todo = <<>>
  /\ stdout = <<>>
  /\ pc = "for"

\* any rack, a dictionary of one entry
Init == \E r \in Racks, c \in Constraints, f \in OneLineFiles : Setup(r, c, f)

\* a short rack, a dictionary of up to MaxLines entries
InitFile == \E r \in ShortRacks, c \in Constraints, f \in Files : Setup(r, c, f)

\* the word of the line the loop takes next
next_word == strip_nl(raw_input[consumed + 1])

\* line 194
length_rejects(w, n_tiles) == Len(w) > n_tiles

\* line 196
exclude_rejects(w, tiles_str, n_wildcards) ==
  tiles_str # <<>> /\ exclude_re_match(tiles_str, n_wildcards, w)

\* line 198: a compiled pattern is true, None is false
constraint_rejects(w, c) == c # None /\ ~constraint_match(c, w)

phase1_rejects(w) == length_rejects(w, tile_count)

phase2_rejects(w) == exclude_rejects(w, alpha_tiles_str, number_of_wildcards)

phase3_rejects(w) == constraint_rejects(w, constraint)

TakeLine ==
  /\ pc = "for"
  /\ consumed < Len(raw_input)
  /\ consumed' = consumed + 1
  /\ word' = next_word

\* lines 194-195
RejectLength ==
  /\ TakeLine
  /\ phase1_rejects(next_word)
  /\ pc' = "continue_length"
  /\ UNCHANGED <<params, rack_alpha_counter, locals, result, stdout>>

\* lines 196-197
RejectExcluded ==
  /\ TakeLine
  /\ ~phase1_rejects(next_word)
  /\ phase2_rejects(next_word)
  /\ pc' = "continue_exclude"
  /\ UNCHANGED <<params, rack_alpha_counter, locals, result, stdout>>

\* lines 198-199
RejectConstraint ==
  /\ TakeLine
  /\ ~phase1_rejects(next_word)
  /\ ~phase2_rejects(next_word)
  /\ phase3_rejects(next_word)
  /\ pc' = "continue_constraint"
  /\ UNCHANGED <<params, rack_alpha_counter, locals, result, stdout>>

\* a continue statement: back to the head of the loop
Continue ==
  /\ pc \in {"continue_length", "continue_exclude", "continue_constraint"}
  /\ pc' = "for"
  /\ UNCHANGED <<params, rack_alpha_counter, consumed, word, locals, result, stdout>>

\* lines 207-210: the word passed the three phases
Candidate ==
  /\ TakeLine
  /\ ~phase1_rejects(next_word)
  /\ ~phase2_rejects(next_word)
  /\ ~phase3_rejects(next_word)
  /\ wildcards_available' = fresh_wildcards(number_of_wildcards, wildcards_available)
  /\ scoring_delta' = 0
  /\ valid' = "None"
  /\ todo' = unpack_candidate(next_word)
  /\ pc' = IF todo' = <<>> THEN "valid" ELSE "assemble"
  /\ UNCHANGED <<params, rack_alpha_counter, result, stdout>>

\* lines 210-219: one pass of the inner loop
AssembleStep ==
  /\ pc = "assemble"
  /\ LET st == assemble_step(
                 [wildcards_available |-> wildcards_available,
                  scoring_delta |-> scoring_delta, valid |-> valid],
                 Head(todo), rack_alpha_counter)
     IN  /\ wildcards_available' = st.wildcards_available
         /\ scoring_delta' = st.scoring_delta
         /\ valid' = st.valid
  /\ rack_alpha_counter' = Counter_after_getitem(rack_alpha_counter, Head(todo)[1])
  /\ todo' = Tail(todo)
  /\ pc' = IF valid' = "False" \/ todo' = <<>> THEN "valid" ELSE "assemble"
  /\ UNCHANGED <<params, consumed, word, result, stdout>>

\* lines 220-221
AppendResult ==
  /\ pc = "valid"
  /\ valid # "False"
  /\ result' = Append(result, <<score_word(word) - scoring_delta, word>>)
  /\ pc' = "for"
  /\ UNCHANGED <<params, rack_alpha_counter, consumed, word, locals, stdout>>

\* line 220, the word could not be assembled
Discard ==
  /\ pc = "valid"
  /\ valid = "False"
  /\ pc' = "for"
  /\ UNCHANGED <<params, rack_alpha_counter, consumed, word, locals, result, stdout>>

\* two_pass_sort as it would be without the sort on the secondary key
two_pass_sort_score_only(res) == list_sort(res, 0, "int", TRUE)

\* lines 234-235
two_pass_sort(res) == list_sort(list_sort(res, 1, "str", FALSE), 0, "int", TRUE)

SortResult ==
  /\ pc = "for"
  /\ consumed = Len(raw_input)
  /\ result' = two_pass_sort(result)
  /\ pc' = "print"
  /\ UNCHANGED <<params, rack_alpha_counter, consumed, word, locals, stdout>>

\* lines 237-240: a line <<score, word in lower case>> per result, then the total
printed(res) == [i \in DOMAIN res |-> <<res[i][1], lower(res[i][2])>>] \o <<Len(res)>>

PrintResult ==
  /\ pc = "print"
  /\ stdout' = printed(result)
  /\ pc' = "done"
  /\ UNCHANGED <<params, rack_alpha_counter, consumed, word, locals, result>>

Next ==
  \/ RejectLength
  \/ RejectExcluded
  \/ RejectConstraint
  \/ Continue
  \/ Candidate
  \/ AssembleStep
  \/ AppendResult
  \/ Discard
  \/ SortResult
  \/ PrintResult

Spec == Init /\ [][Next]_vars

SpecFile == InitFile /\ [][Next]_vars

(***************************************************************************)
(* scrabble as a function of its inputs: what the loop adds to result for  *)
(* one word, for all the lines, and the sorted result with what is printed.*)
(***************************************************************************)
\* lines 193-221 for the word w; with_exclude = FALSE leaves out the test of line 196
word_result(w, r, c, with_exclude) ==
  LET n == Len(SelectSeq(r, wildcard_re))
      counter == Counter(SelectSeq(r, not_wildcard_re))
      st == assemble_loop(
              [wildcards_available |-> fresh_wildcards(n, n), scoring_delta |-> 0,
               valid |-> "None"],
              unpack_candidate(w), counter)
  IN  IF length_rejects(w, Len(r)) THEN <<>>
      ELSE IF with_exclude /\ exclude_rejects(w, counter.keys, n) THEN <<>>
      ELSE IF constraint_rejects(w, c) THEN <<>>
      ELSE IF st.valid # "False" THEN << <<score_word(w) - st.scoring_delta, w>> >>
      ELSE <<>>

\* the loop of line 192 over the lines f
RECURSIVE collect(_, _, _, _)
collect(f, r, c, with_exclude) ==
  IF f = <<>> THEN <<>>
  ELSE collect(SubSeq(f, 1, Len(f) - 1), r, c, with_exclude)
         \o word_result(strip_nl(f[Len(f)]), r, c, with_exclude)

\* the sorted result and the printed lines of scrabble(r, c) on the file f
scrabble(r, c, f) ==
  LET res == two_pass_sort(collect(f, r, c, TRUE))
  IN  [result |-> res, stdout |-> printed(res)]

(***************************************************************************)
(* The vocabulary of the properties, defined on the inputs alone.          *)
(***************************************************************************)
RECURSIVE SumOver(_, _)
SumOver(f, S) ==
  IF S = {} THEN 0
  ELSE LET x == CHOOSE y \in S : TRUE IN f[x] + SumOver(f, S \ {x})

Max(a, b) == IF a >= b THEN a ELSE b

IsWildcardTile(t) == t \in {"*", "?"}

\* the number of wildcard tiles of the rack r
WildcardCount(r) == Cardinality({i \in DOMAIN r : IsWildcardTile(r[i])})

\* the number of tiles of r that are the letter ch
LetterCount(r, ch) == Cardinality({i \in DOMAIN r : r[i] = ch /\ ~IsWildcardTile(r[i])})

\* how many more ch the word w needs than the rack r has
Short(w, r, ch) == Max(0, count_of(w, ch) - LetterCount(r, ch))

\* the number of positions of w that only a wildcard can fill
Shortfall(w, r) == SumOver([ch \in Range(w) |-> Short(w, r, ch)], Range(w))

Buildable(w, r) == Shortfall(w, r) <= WildcardCount(r)

TileValue(ch) == IF ch \in DOMAIN scores THEN scores[ch] ELSE 0

RawScore(w) == SumOver([i \in DOMAIN w |-> TileValue(w[i])], DOMAIN w)

\* the value of the positions of w that wildcards fill
CoveredValue(w, r) ==
  SumOver([ch \in Range(w) |-> Short(w, r, ch) * TileValue(ch)], Range(w))

IsUpperWord(w) == \A i \in DOMAIN w : w[i] \in Range(Upper)

MatchesAtStart(c, w) == c = None \/ pattern_matches_at(c[1], w, 1)

Reported(w) == \E i \in DOMAIN result : result[i][2] = w

\* the k-th entry of the dictionary
Entry(k) == strip_nl(raw_input[k])

Finished == pc \in {"print", "done"}

(***************************************************************************)
(* C1.  Soundness: every reported word can be built from the rack, that is,*)
(* the letters it needs beyond the rack's letter tiles are at most as many *)
(* as the rack's wildcards.                                                *)
(***************************************************************************)
C1_Soundness == \A i \in DOMAIN result : Buildable(result[i][2], rack)

\* a word is reported that the letter tiles do not cover and that has a
\* letter the rack holds too few of
C1_Witness ==
  /\ pc = "done"
  /\ \E i \in DOMAIN result :
       /\ Shortfall(result[i][2], rack) > 0
       /\ \E ch \in Range(result[i][2]) :
            LetterCount(rack, ch) >= 1 /\ count_of(result[i][2], ch) > LetterCount(rack, ch)

Qualifies(w) ==
  /\ IsUpperWord(w)
  /\ Len(w) <= Len(rack)
  /\ Buildable(w, rack)
  /\ MatchesAtStart(constraint, w)

(***************************************************************************)
(* C2.  Completeness: a dictionary word of upper-case letters that is no   *)
(* longer than the rack, is buildable and matches the constraint at its    *)
(* start is reported; no phase and no assembly check rejects it.           *)
(***************************************************************************)
C2_Completeness ==
  /\ Finished => \A k \in DOMAIN raw_input : Qualifies(Entry(k)) => Reported(Entry(k))
  /\ pc \in {"continue_length", "continue_exclude", "continue_constraint"}
       => ~Qualifies(word)
  /\ pc = "valid" /\ valid = "False" => ~Qualifies(word)

\* a qualifying word that needs a wildcard, under a constraint, is reported
C2_Witness ==
  /\ pc = "done"
  /\ constraint # None
  /\ \E k \in DOMAIN raw_input :
       /\ Qualifies(Entry(k))
       /\ Shortfall(Entry(k), rack) > 0
       /\ Entry(k) # <<>>
       /\ Reported(Entry(k))

(***************************************************************************)
(* C3.  The score of a reported word is its raw score less the value of    *)
(* every position a wildcard fills; it is never negative, and it is 0 when *)
(* the rack holds wildcards only.                                          *)
(***************************************************************************)
C3_Score ==
  \A i \in DOMAIN result :
    /\ result[i][1] = RawScore(result[i][2]) - CoveredValue(result[i][2], rack)
    /\ result[i][1] >= 0
    /\ WildcardCount(rack) = Len(rack) => result[i][1] = 0

\* a word is reported with two positions of one letter filled by wildcards
\* and a positive score
C3_Witness ==
  /\ pc = "done"
  /\ \E i \in DOMAIN result :
       /\ \E ch \in Range(result[i][2]) : Short(result[i][2], rack, ch) = 2
       /\ result[i][1] > 0

WordLeq(s, t) == s = t \/ str_lt(s, t)

\* the tuple a goes before the tuple b: score descending, word ascending
Before(a, b) == a[1] > b[1] \/ (a[1] = b[1] /\ WordLeq(a[2], b[2]))

Ordered(res) == \A i \in 1..(Len(res) - 1) : Before(res[i], res[i + 1])

RECURSIVE CompoundInsert(_, _)
CompoundInsert(x, res) ==
  IF res = <<>> THEN <<x>>
  ELSE IF Before(x, Head(res)) THEN <<x>> \o res
  ELSE <<Head(res)>> \o CompoundInsert(x, Tail(res))

RECURSIVE CompoundSort(_)
CompoundSort(res) ==
  IF res = <<>> THEN <<>> ELSE CompoundInsert(Head(res), CompoundSort(Tail(res)))

\* what the loop has appended for the lines taken so far, in file order
Appended == collect(SubSeq(raw_input, 1, consumed), rack, constraint, TRUE)

(***************************************************************************)
(* C4.  The result is ordered by score descending, then word ascending,    *)
(* and the two sorts of lines 234-235 give exactly what one sort on the    *)
(* compound key gives; the printed lines of an upper-case dictionary are   *)
(* in that order too.                                                      *)
(***************************************************************************)
C4_Order ==
  Finished =>
    /\ Ordered(result)
    /\ result = CompoundSort(Appended)
    /\ pc = "done" /\ (\A k \in DOMAIN raw_input : IsUpperWord(Entry(k)))
         => /\ Len(stdout) = Len(result) + 1
            /\ Ordered(SubSeq(stdout, 1, Len(result)))

\* two different words of one score were appended in descending order and
\* are printed in ascending order
C4_Witness ==
  /\ pc = "done"
  /\ Len(result) = 2
  /\ result[1][1] = result[2][1]
  /\ result[1][2] # result[2][2]
  /\ Appended = <<result[2], result[1]>>

(***************************************************************************)
(* C5.  Under a constraint a word is reported only if the constraint       *)
(* matches it at position 0; a word it does not match there is rejected    *)
(* even when the rack can build it and the pattern occurs further on;      *)
(* without a constraint phase 3 rejects nothing.                           *)
(***************************************************************************)
C5_Constraint ==
  /\ \A i \in DOMAIN result : MatchesAtStart(constraint, result[i][2])
  /\ pc = "continue_constraint" => constraint # None /\ ~MatchesAtStart(constraint, word)
  /\ Finished => \A k \in DOMAIN raw_input :
                   ~MatchesAtStart(constraint, Entry(k)) => ~Reported(Entry(k))
  /\ pc \in {"assemble", "valid"} => MatchesAtStart(constraint, word)

\* a word the rack can build, which holds a match of the pattern at a later
\* position only, is rejected by phase 3
C5_Witness ==
  /\ pc = "continue_constraint"
  /\ Buildable(word, rack)
  /\ \E pos \in 2..Len(word) : pattern_matches_at(constraint[1], word, pos)

Permuted(s, q) == [i \in DOMAIN s |-> s[q[i]]]

(***************************************************************************)
(* C6.  The sorted result and the printed lines are the same for every     *)
(* order of the lines of the dictionary (repeated words included), and are *)
(* what a second run on the same inputs gives.                             *)
(***************************************************************************)
C6_OrderOfLines ==
  pc = "done" =>
    \A q \in Permutations(DOMAIN raw_input) :
      LET other == scrabble(rack, constraint, Permuted(raw_input, q))
      IN  /\ other.result = result
          /\ other.stdout = stdout
          /\ other.stdout[Len(other.stdout)] = Len(result)

\* two different words of one score are reported, the later one of the file first
C6_Witness ==
  /\ pc = "done"
  /\ Len(raw_input) = 2
  /\ Len(result) = 2
  /\ result[1][1] = result[2][1]
  /\ result[1][2] = Entry(2)
  /\ result[2][2] = Entry(1)
  /\ Entry(1) # Entry(2)

(***************************************************************************)
(* C7.  As stated: a malformed dictionary entry, one holding a character   *)
(* that is not an upper-case letter, is never reported, whatever the rack. *)
(***************************************************************************)
C7_MalformedExcluded == \A i \in DOMAIN result : IsUpperWord(result[i][2])

\* the number of characters of w that are not upper-case letters
MalformedCount(w) == Cardinality({i \in DOMAIN w : w[i] \notin Range(Upper)})

(***************************************************************************)
(* C7, amended.  A malformed entry is handled as any other word: each of   *)
(* its malformed characters needs a wildcard and scores 0.  It is reported *)
(* exactly when it is no longer than the rack, buildable and matched by    *)
(* the constraint, so never by a rack without wildcards and never with     *)
(* more malformed characters than the rack has wildcards.                  *)
(***************************************************************************)
C7_MalformedNeedsWildcards ==
  /\ \A i \in DOMAIN result :
       ~IsUpperWord(result[i][2]) =>
         /\ WildcardCount(rack) >= 1
         /\ MalformedCount(result[i][2]) <= WildcardCount(rack)
         /\ Buildable(result[i][2], rack)
         /\ result[i][1] <= RawScore(SelectSeq(result[i][2], LAMBDA ch : ch \in Range(Upper)))
  /\ Finished =>
       \A k \in DOMAIN raw_input :
         ~IsUpperWord(Entry(k)) =>
           (Reported(Entry(k)) <=>
              /\ Len(Entry(k)) <= Len(rack)
              /\ Buildable(Entry(k), rack)
              /\ MatchesAtStart(constraint, Entry(k)))

\* a malformed entry that also holds a letter of the rack is reported with a
\* positive score
C7_Witness ==
  /\ pc = "done"
  /\ \E i \in DOMAIN result : ~IsUpperWord(result[i][2]) /\ result[i][1] > 0

AbsentCount(w, r) == Cardinality({i \in DOMAIN w : LetterCount(r, w[i]) = 0})

\* the locals as lines 207-209 set them
fresh_locals ==
  [wildcards_available |-> number_of_wildcards, scoring_delta |-> 0, valid |-> "None"]

(***************************************************************************)
(* C8.  Phase 2 rejects a word exactly when more of its characters are     *)
(* absent from the rack's letters than the rack has wildcards; it rejects  *)
(* nothing for a rack of wildcards only; a word it rejects fails the       *)
(* assembly check too, so scrabble without phase 2 reports the same.       *)
(***************************************************************************)
C8_Phase2 ==
  /\ pc = "continue_exclude" =>
       /\ AbsentCount(word, rack) > WildcardCount(rack)
       /\ WildcardCount(rack) < Len(rack)
       /\ assemble_loop(fresh_locals, unpack_candidate(word), rack_alpha_counter).valid = "False"
  /\ pc \in {"continue_constraint", "assemble", "valid"} =>
       AbsentCount(word, rack) <= WildcardCount(rack)
  /\ pc = "done" =>
       LET res == two_pass_sort(collect(raw_input, rack, constraint, FALSE))
       IN  result = res /\ stdout = printed(res)

\* phase 2 rejects a word although the rack holds a wildcard
C8_Witness ==
  /\ pc = "continue_exclude"
  /\ number_of_wildcards >= 1
  /\ \E i \in DOMAIN word : LetterCount(rack, word[i]) >= 1

\* the locals at the end of the loop of line 210 run over the triples in the order q
loop_in_order(q) ==
  assemble_loop(fresh_locals, Permuted(unpack_candidate(word), q), rack_alpha_counter)

Orders == Permutations(DOMAIN unpack_candidate(word))

(***************************************************************************)
(* C9.  As stated: whatever the order in which the triples of a candidate  *)
(* are processed, the assembly loop ends with the same verdict and the     *)
(* same accumulated scoring delta.                                         *)
(***************************************************************************)
C9_AnyOrderSameDelta ==
  pc = "valid" =>
    \A q \in Orders :
      /\ loop_in_order(q).valid = valid
      /\ loop_in_order(q).scoring_delta = scoring_delta

(***************************************************************************)
(* C9, amended.  Whatever the order of the triples, the verdict is the     *)
(* same, and for a word that can be assembled so are the scoring delta and *)
(* the net score.  (For a word that cannot, the delta accumulated up to    *)
(* the break depends on the order; it is not used.)                        *)
(***************************************************************************)
C9_AnyOrderSameOutcome ==
  pc = "valid" =>
    \A q \in Orders :
      /\ loop_in_order(q).valid = valid
      /\ valid # "False" =>
           /\ loop_in_order(q).scoring_delta = scoring_delta
           /\ score_word(word) - loop_in_order(q).scoring_delta
                = score_word(word) - scoring_delta

\* a word was assembled with wildcards standing for two letters of different value
C9_Witness ==
  /\ pc = "valid"
  /\ valid # "False"
  /\ \E a, b \in Range(word) :
       /\ TileValue(a) # TileValue(b)
       /\ Short(word, rack, a) > 0
       /\ Short(word, rack, b) > 0

AtStartOfAssembly == pc \in {"assemble", "valid"} /\ todo = unpack_candidate(word)

LetterTiles(r) == {r[i] : i \in {j \in DOMAIN r : ~IsWildcardTile(r[j])}}

(***************************************************************************)
(* C10.  The evaluations of the words do not interfere: each assembly      *)
(* check starts with all the rack's wildcards and a delta of 0, the rack's *)
(* letter counter is never changed, and whether a word is reported, and    *)
(* with what score, is what scrabble gives for that word alone.            *)
(***************************************************************************)
C10_NoInterference ==
  /\ AtStartOfAssembly =>
       /\ wildcards_available = WildcardCount(rack)
       /\ scoring_delta = 0
       /\ valid = "None"
  /\ DOMAIN rack_alpha_counter.count = LetterTiles(rack)
  /\ Range(rack_alpha_counter.keys) = LetterTiles(rack)
  /\ \A ch \in LetterTiles(rack) : rack_alpha_counter.count[ch] = LetterCount(rack, ch)
  /\ pc = "valid" =>
       LET alone == word_result(word, rack, constraint, TRUE)
       IN  /\ valid # "False" <=> alone # <<>>
           /\ valid # "False" => alone[1] = <<score_word(word) - scoring_delta, word>>
  /\ Finished =>
       \A k \in DOMAIN raw_input :
         LET alone == word_result(Entry(k), rack, constraint, TRUE)
         IN  /\ Reported(Entry(k)) <=> alone # <<>>
             /\ alone # <<>> => \E i \in DOMAIN result : result[i] = alone[1]

\* the assembly check of the second word starts after the first word was
\* reported with a wildcard spent on it, and the second needs one too
C10_Witness ==
  /\ pc = "assemble"
  /\ consumed = 2
  /\ todo = unpack_candidate(word)
  /\ Len(result) = 1
  /\ Shortfall(result[1][2], rack) > 0
  /\ Shortfall(word, rack) > 0

====
